---- MODULE Spec2Model ----
(***************************************************************************)
(* nativethread: run a native routine on a detached pthread that can be    *)
(* hard-cancelled, and report completion to Python through one callback.   *)
(* Model of src/src/nativethread.c.                                        *)
(*                                                                         *)
(* The Python caller is one thread ("main").  The interpreter holds the    *)
(* GIL whenever it is inside do_interruptably or interrupt; between two    *)
(* extension calls it may hand the GIL to a waiting thread, which is       *)
(* modelled by main taking the GIL on entry and giving it up on return.    *)
(* Every call of do_interruptably that gets past malloc uses one context   *)
(* slot l \in Slots; the OS thread it may create is thr[l].                *)
(***************************************************************************)
EXTENDS Integers, FiniteSets, Sequences, TLC

(* ---- bounds ---------------------------------------------------------- *)
MaxLaunch == 2      \* calls of do_interruptably that allocate a context

(* ---- errno values (errno.h) ------------------------------------------ *)
ENOMEM == 12
EAGAIN == 11
EPERM == 1
EINVAL == 22
ESRCH == 3

(* ---- Python objects --------------------------------------------------- *)
THREAD_HANDLE_NAME == "nativethread.thread_handle"
OTHER_NAME == "other.capsule"

Callable == {"f_ok", "f_cancel", "f_err"}
DataSeq == <<"d1", "d2">>
Data == {DataSeq[i] : i \in DOMAIN DataSeq}
Objects == Callable \cup {"junk"} \cup Data
NIL == "nil"

Slots == 1..MaxLaunch
Tids == 1..MaxLaunch

\* who holds the GIL: nobody, the Python caller, or the spawned thread of slot l
GilFree == -1
GilMain == 0

PyCallable_Check(o) == o \in Callable

VARIABLES
    mainpc,     \* the Python caller: "idle", "mkhandle" (line 245), "ret"
    nslot,      \* context slots used so far
    ret,        \* what the extension call in progress is about to return
    ctx,        \* ctx[l]: the ThreadInfo of slot l
    refcnt,     \* refcnt[o]: reference count of Python object o
    thr,        \* thr[l]: the OS thread created for slot l
    gil,        \* holder of the GIL
    handles,    \* thread-handle capsules the caller holds
    hist        \* hist[l]: what has been observed of launch l

vars == <<mainpc, nslot, ret, ctx, refcnt, thr, gil, handles, hist>>

\* a Python value as interrupt sees it: its kind, a capsule's name and the
\* pthread_t it carries; launch is the slot whose launch issued it (0: none did)
NullObj == [kind |-> "null", name |-> NIL, tid |-> 0, launch |-> 0]

NoCtx == [state |-> "unalloc", ok_cbak |-> NIL, cancel_cbak |-> NIL,
          err_cbak |-> NIL, data |-> NIL]

NoRet == [op |-> "none", stage |-> "none", result |-> "none", slot |-> 0,
          arg |-> NullObj, oscall |-> FALSE, rc |-> 0, bad |-> FALSE]

NoThr == [pc |-> "none", tid |-> 0, cancelstate |-> "enable",
          canceltype |-> "deferred", pending |-> FALSE, cleanup |-> FALSE,
          cbak |-> NIL, args |-> "NULL", ret |-> "NULL"]

NoHist == [ok |-> 0, cancel |-> 0, err |-> 0, he |-> 0, returned |-> FALSE,
           early |-> FALSE, uaf |-> FALSE, released |-> FALSE, nfree |-> 0,
           arg |-> NIL, cbarg |-> NIL, owned |-> {}, own |-> FALSE]

Init ==
    /\ mainpc = "idle"
    /\ nslot = 0
    /\ ret = NoRet
    /\ ctx = [l \in Slots |-> NoCtx]
    /\ refcnt = [o \in Objects |-> 1]
    /\ thr = [l \in Slots |-> NoThr]
    /\ gil = GilFree
    /\ handles = {}
    /\ hist = [l \in Slots |-> NoHist]

(* ---- helpers ---------------------------------------------------------- *)
Py_INCREF(rc, o) == [rc EXCEPT ![o] = @ + 1]
Py_DECREF(rc, o) == [rc EXCEPT ![o] = @ - 1]

\* lines 216-219: take ownership of the three callbacks and the argument
RetainAll(rc, c) ==
    Py_INCREF(Py_INCREF(Py_INCREF(Py_INCREF(rc, c.ok_cbak), c.cancel_cbak),
                        c.err_cbak), c.data)

\* a variant that forgets the argument object
ReleaseAll_NoData(rc, c) ==
    Py_DECREF(Py_DECREF(Py_DECREF(rc, c.ok_cbak), c.cancel_cbak), c.err_cbak)

\* lines 81-84: give the four references back
ReleaseAll(rc, c) ==
    Py_DECREF(Py_DECREF(Py_DECREF(Py_DECREF(rc, c.ok_cbak), c.cancel_cbak),
                        c.err_cbak), c.data)

\* the objects a context holds a reference to (lines 216-219)
Owned(c) == {c.ok_cbak, c.cancel_cbak, c.err_cbak, c.data}

\* a variant that forgets the third callback
CallbacksCallable_NoErr(c) ==
    /\ PyCallable_Check(c.ok_cbak)
    /\ PyCallable_Check(c.cancel_cbak)

\* lines 207-209: arguments 2, 3 and 4 must be callable
CallbacksCallable(c) ==
    /\ PyCallable_Check(c.ok_cbak)
    /\ PyCallable_Check(c.cancel_cbak)
    /\ PyCallable_Check(c.err_cbak)

\* lines 223-225: each step runs only if no earlier step failed
CreateFailed(rcInit, rcDetach, rcCreate) ==
    IF rcInit # 0 THEN rcInit ELSE IF rcDetach # 0 THEN rcDetach ELSE rcCreate

\* lines 229-240: the exception set for a failed start
CreateError(failed) ==
    IF failed = ENOMEM THEN "MemoryError" ELSE "SystemError"

\* free(thr): the block goes back to the allocator, its contents are gone
Free(c) == [NoCtx EXCEPT !.state = "freed"]
Freed(h) == [h EXCEPT !.nfree = @ + 1]

Live(t) == t.pc \notin {"none", "exited"}
LiveTids == {thr[k].tid : k \in {j \in Slots : Live(thr[j])}}
UsedTids == {thr[k].tid : k \in {j \in Slots : thr[j].pc # "none"}}

\* identifiers pthread_create may hand out: any not in use by a live thread,
\* so the identifier of an exited thread can come back; identifiers are opaque,
\* and fresh ones are taken in order
FreshTids == {t \in Tids \ LiveTids : \A u \in Tids \ UsedTids : t \in UsedTids \/ t <= u}

\* argument objects a launch may be given: one given before, or the next new
\* one (the objects are alike, so which new one it is does not matter)
UsedData == {d \in Data : refcnt[d] > 1}
FreshData ==
    {DataSeq[i] : i \in {j \in DOMAIN DataSeq :
                            \A k \in 1..(j - 1) : DataSeq[k] \in UsedData}}

\* a thread as pthread_create leaves it: cancelability enabled and deferred
NewThread(tid) == [NoThr EXCEPT !.pc = "start", !.tid = tid]

\* bad notes that the call was given a non-callable in a callback position
LaunchRet(stage, result, l, bad) ==
    [NoRet EXCEPT !.op = "launch", !.stage = stage, !.result = result,
                  !.slot = l, !.bad = bad]

(* ---- do_interruptably, lines 184-245 ---------------------------------- *)
\* malloc of the ThreadInfo fails (line 192)
LaunchNoMemory ==
    /\ mainpc = "idle" /\ gil = GilFree
    /\ gil' = GilMain
    /\ mainpc' = "ret"
    /\ ret' = LaunchRet("alloc", "MemoryError", 0, FALSE)
    /\ UNCHANGED <<nslot, ctx, refcnt, thr, handles, hist>>

\* PyArg_ParseTuple fails (lines 195-204): wrong arity or a non-integer pointer
LaunchBadArgs ==
    /\ mainpc = "idle" /\ gil = GilFree /\ nslot < MaxLaunch
    /\ gil' = GilMain
    /\ mainpc' = "ret"
    /\ nslot' = nslot + 1
    /\ ctx' = [ctx EXCEPT ![nslot + 1] = Free([NoCtx EXCEPT !.state = "live"])]
    /\ ret' = LaunchRet("parse", "TypeError", nslot + 1, FALSE)
    /\ hist' = [hist EXCEPT ![nslot + 1] = Freed(@)]
    /\ UNCHANGED <<refcnt, thr, handles>>

\* lines 191-243 for parsed arguments ok, cancel, err, data
Launch(ok, cancel, err, data, rcInit, rcDetach, rcCreate, tid) ==
    LET l == nslot + 1
        c == [NoCtx EXCEPT !.state = "live", !.ok_cbak = ok, !.cancel_cbak = cancel,
                           !.err_cbak = err, !.data = data]
        failed == CreateFailed(rcInit, rcDetach, rcCreate)
        bad == {ok, cancel, err} \ Callable # {}
    IN  /\ mainpc = "idle" /\ gil = GilFree /\ nslot < MaxLaunch
        /\ gil' = GilMain
        /\ nslot' = nslot + 1
        /\ IF ~CallbacksCallable(c)
           THEN /\ ctx' = [ctx EXCEPT ![l] = Free(c)]
                /\ hist' = [hist EXCEPT ![l] = Freed(@)]
                /\ ret' = LaunchRet("validate", "TypeError", l, bad)
                /\ mainpc' = "ret"
                /\ UNCHANGED <<refcnt, thr>>
           ELSE /\ refcnt' = RetainAll(refcnt, c)
                /\ IF failed # 0
                   THEN /\ ctx' = [ctx EXCEPT ![l] = Free(c)]
                        /\ hist' = [hist EXCEPT ![l] = [Freed(@) EXCEPT !.owned = Owned(c)]]
                        /\ ret' = LaunchRet("create", CreateError(failed), l, bad)
                        /\ mainpc' = "ret"
                        /\ UNCHANGED thr
                   ELSE /\ ctx' = [ctx EXCEPT ![l] = c]
                        /\ thr' = [thr EXCEPT ![l] = NewThread(tid)]
                        /\ ret' = LaunchRet("running", "none", l, bad)
                        /\ mainpc' = "mkhandle"
                        /\ hist' = [hist EXCEPT ![l].arg = data, ![l].owned = Owned(c)]
        /\ UNCHANGED <<handles>>

DoInterruptably ==
    \E ok \in {"f_ok", "junk"}, cancel \in {"f_cancel", "junk"},
       err \in {"f_err", "junk"}, data \in FreshData,
       rcInit \in {0, ENOMEM}, rcDetach \in {0, EINVAL},
       rcCreate \in {0, ENOMEM, EAGAIN, EPERM, EINVAL},
       tid \in FreshTids :
        Launch(ok, cancel, err, data, rcInit, rcDetach, rcCreate, tid)

\* make_thread_handle, lines 138-148: NullObj is the NULL it returns on failure
make_thread_handle(id, l, mallocOK, capsuleOK) ==
    IF ~mallocOK THEN NullObj
    ELSE IF ~capsuleOK THEN NullObj
    ELSE [kind |-> "capsule", name |-> THREAD_HANDLE_NAME, tid |-> id, launch |-> l]

\* a variant that frees the context when no handle could be made
LaunchMakeHandle_Free ==
    /\ mainpc = "mkhandle"
    /\ \E mallocOK \in BOOLEAN, capsuleOK \in BOOLEAN :
         LET l == ret.slot
             h == make_thread_handle(thr[l].tid, l, mallocOK, capsuleOK)
         IN  /\ ret' = [ret EXCEPT !.stage = IF h = NullObj THEN "handle" ELSE "ok",
                                   !.result = IF h = NullObj THEN "MemoryError"
                                                              ELSE "handle",
                                   !.arg = h]
             /\ ctx' = IF h = NullObj THEN [ctx EXCEPT ![l] = Free(@)] ELSE ctx
             /\ hist' = IF h = NullObj THEN [hist EXCEPT ![l] = Freed(@)] ELSE hist
    /\ mainpc' = "ret"
    /\ UNCHANGED <<nslot, refcnt, thr, gil, handles>>

\* line 245: the thread is already running when the handle is made
LaunchMakeHandle ==
    /\ mainpc = "mkhandle"
    /\ \E mallocOK \in BOOLEAN, capsuleOK \in BOOLEAN :
         LET l == ret.slot
             h == make_thread_handle(thr[l].tid, l, mallocOK, capsuleOK)
         IN  ret' = [ret EXCEPT !.stage = IF h = NullObj THEN "handle" ELSE "ok",
                                !.result = IF h = NullObj THEN "MemoryError"
                                                           ELSE "handle",
                                !.arg = h]
    /\ mainpc' = "ret"
    /\ UNCHANGED <<nslot, ctx, refcnt, thr, gil, handles, hist>>


(* ---- interrupt, lines 154-179 ------------------------------------------ *)
PyCapsule_CheckExact(o) == o.kind = "capsule"

\* a variant that does not compare the name
PyCapsule_GetPointer_AnyName(o, name) ==
    IF o.kind = "capsule" THEN o.tid ELSE 0

\* PyCapsule_GetPointer(o, name): the stored pointer when the capsule's name
\* equals `name`, else NULL (0) with ValueError set
PyCapsule_GetPointer(o, name) ==
    IF o.kind = "capsule" /\ o.name = name THEN o.tid ELSE 0

\* values the caller can pass that no launch produced: a raw identifier, and
\* a capsule somebody else made
Forged ==
    {[kind |-> "int", name |-> NIL, tid |-> 1, launch |-> 0],
     [kind |-> "capsule", name |-> OTHER_NAME, tid |-> 1, launch |-> 0]}

\* a variant without the PyCapsule_CheckExact test of lines 160-163
InterruptCheck_NoExact(handle) ==
    IF PyCapsule_GetPointer(handle, THREAD_HANDLE_NAME) = 0
    THEN [stage |-> "name", result |-> "ValueError"]
    ELSE [stage |-> "cancel", result |-> "none"]

\* lines 160-167: the checks before the OS call; "cancel" means it is made
InterruptCheck(handle) ==
    IF ~PyCapsule_CheckExact(handle)
    THEN [stage |-> "check", result |-> "TypeError"]
    ELSE IF PyCapsule_GetPointer(handle, THREAD_HANDLE_NAME) = 0
    THEN [stage |-> "name", result |-> "ValueError"]
    ELSE [stage |-> "cancel", result |-> "none"]

\* a variant that ignores pthread_cancel's return value
InterruptResult_Ignore(rc) == "None"

\* lines 171-178: the result for pthread_cancel's return value
InterruptResult(rc) == IF rc # 0 THEN "SystemError" ELSE "None"

\* threads pthread_cancel(tid) reaches: the live one with that identifier
Targets(tid) == {l \in Slots : Live(thr[l]) /\ thr[l].tid = tid}

\* pthread_cancel: a live thread gets the request posted and 0 is returned; an
\* identifier of no live thread is undefined behaviour, seen as ESRCH or as 0
CancelReturns(tid) == IF Targets(tid) # {} THEN {0} ELSE {0, ESRCH}

\* a variant that ends the target at once instead of posting a request
Post_Kill(t) == [NoThr EXCEPT !.pc = "exited", !.tid = t.tid]

\* the request is posted to the thread; one posted to a thread that has
\* disabled cancelability is never acted on, since the thread never enables it
\* again (lines 117-123), and is not kept
Post(t) == IF t.cancelstate = "enable" THEN [t EXCEPT !.pending = TRUE] ELSE t

pthread_cancel(tid) ==
    [l \in Slots |-> IF l \in Targets(tid) THEN Post(thr[l]) ELSE thr[l]]

InterruptRet(stage, result, handle, oscall, rc) ==
    [NoRet EXCEPT !.op = "interrupt", !.stage = stage, !.result = result,
                  !.arg = handle, !.oscall = oscall, !.rc = rc]

\* PyArg_ParseTuple fails (lines 157-159)
InterruptBadArgs ==
    /\ mainpc = "idle" /\ gil = GilFree
    /\ gil' = GilMain
    /\ mainpc' = "ret"
    /\ ret' = InterruptRet("parse", "TypeError", NullObj, FALSE, 0)
    /\ UNCHANGED <<nslot, ctx, refcnt, thr, handles, hist>>

Interrupt(handle) ==
    LET chk == InterruptCheck(handle)
        thr_id == PyCapsule_GetPointer(handle, THREAD_HANDLE_NAME)
    IN  /\ mainpc = "idle" /\ gil = GilFree
        /\ gil' = GilMain
        /\ mainpc' = "ret"
        /\ IF chk.stage # "cancel"
           THEN /\ ret' = InterruptRet(chk.stage, chk.result, handle, FALSE, 0)
                /\ UNCHANGED <<thr, hist>>
           ELSE \E rc \in CancelReturns(thr_id) :
                  /\ thr' = pthread_cancel(thr_id)
                  /\ ret' = InterruptRet("cancel", InterruptResult(rc), handle, TRUE, rc)
                  /\ hist' = [l \in Slots |->
                                IF handle.launch = l /\ l \in Targets(thr_id)
                                   /\ Post(thr[l]).pending
                                THEN [hist[l] EXCEPT !.own = TRUE] ELSE hist[l]]
        /\ UNCHANGED <<nslot, ctx, refcnt, handles>>

\* hist[l].own notes that interrupt, called with the handle that launch l
\* returned, has posted a cancellation request to l's thread
InterruptCall == \E handle \in handles \cup Forged : Interrupt(handle)

(* ---- the extension call returns to the interpreter --------------------- *)
\* a handle that is returned is now the caller's; hist[l].early notes that an
\* interrupt on launch l's handle returned None while l's thread was running
\* and before l's routine returned
Return ==
    /\ mainpc = "ret"
    /\ mainpc' = "idle"
    /\ gil' = GilFree
    /\ ret' = NoRet
    /\ handles' = IF ret.op = "launch" /\ ret.result = "handle"
                  THEN handles \cup {ret.arg} ELSE handles
    /\ hist' = [l \in Slots |->
                 IF /\ ret.op = "interrupt" /\ ret.result = "None"
                    /\ ret.arg.launch = l /\ Live(thr[l]) /\ ~hist[l].returned
                 THEN [hist[l] EXCEPT !.early = TRUE] ELSE hist[l]]
    /\ UNCHANGED <<nslot, ctx, refcnt, thr>>

(* ---- the spawned thread: nativethread_run_thread, lines 100-124 -------- *)
\* a read or write of slot l's context; it is a fault once the context is freed
Touch(l) == [hist[l] EXCEPT !.uaf = @ \/ (ctx[l].state # "live")]

\* lines 107-108: push the cleanup handler, (re-)enable cancellation
Push(t) == [t EXCEPT !.cleanup = TRUE, !.cancelstate = "enable"]

\* line 109: cancellation may now be acted on at any instruction
SetAsync(t) == [t EXCEPT !.canceltype = "async"]

\* lines 107-109; a request posted meanwhile is only held
Setup(t) == [SetAsync(Push(t)) EXCEPT !.pc = "routine"]

\* a variant without line 117
Disable_Missing(t) == t

\* line 117: no cancellation from here on; a request still posted stays
\* unserved for the rest of the thread's life
Disable(t) == [t EXCEPT !.cancelstate = "disable", !.pending = FALSE]

\* line 118: pthread_cleanup_pop(0) removes the handler without running it
Pop(t) == [t EXCEPT !.cleanup = FALSE]

\* handler_exec is entered with `routine` = cbak (lines 96 and 121)
EnterHandler(t, cbak) == [t EXCEPT !.pc = "he_gil", !.cbak = cbak]

\* the thread is gone; its identifier may be handed out again
Exited(t) == [NoThr EXCEPT !.pc = "exited", !.tid = t.tid]

\* what is noted of a running launch (its routine has returned, an interrupt
\* came early, interrupt was called on its own handle) is dropped when its
\* thread ends; the counts stay
Ended(h) ==
    [h EXCEPT !.returned = FALSE, !.early = FALSE, !.arg = NIL, !.cbarg = NIL,
              !.own = FALSE]

\* a posted request is acted on only while cancellation is enabled and
\* asynchronous
CancelActs(t) ==
    /\ Live(t) /\ t.pending
    /\ t.cancelstate = "enable" /\ t.canceltype = "async"

\* acting on a request: cancellation is disabled for the rest of the thread's
\* life and the request is used up
Cancelling(t) ==
    [t EXCEPT !.cancelstate = "disable", !.canceltype = "deferred",
              !.pending = FALSE, !.cleanup = FALSE]

\* a variant that reports a cancellation through the third callback
CancelCallback_Err(c) == c.err_cbak

\* line 96: the cleanup handler passes thr->cancel_cbak to handler_exec
CancelCallback(c) == c.cancel_cbak

\* the request is acted on by thread l in state t: the thread leaves whatever
\* it was doing, runs the pushed cleanup handler nativethread_cancel_handler
\* (lines 94-97) if one is installed, and terminates
ActOnCancel(l, t) ==
    IF t.cleanup
    THEN /\ thr' = [thr EXCEPT ![l] = EnterHandler(Cancelling(t), CancelCallback(ctx[l]))]
         /\ hist' = [hist EXCEPT ![l] = [Touch(l) EXCEPT !.he = @ + 1]]
    ELSE /\ thr' = [thr EXCEPT ![l] = Exited(t)]
         /\ UNCHANGED hist

\* lines 107-109; a request posted before line 109 is acted on by
\* pthread_setcanceltype itself
ThreadSetup(l) ==
    /\ thr[l].pc = "start"
    /\ IF CancelActs(Setup(thr[l]))
       THEN ActOnCancel(l, Setup(thr[l]))
       ELSE thr' = [thr EXCEPT ![l] = Setup(@)] /\ UNCHANGED hist
    /\ UNCHANGED <<mainpc, nslot, ret, ctx, refcnt, gil, handles>>

\* line 112: thr->routine() runs and returns normally
ThreadRoutineReturns(l) ==
    /\ thr[l].pc = "routine"
    /\ thr' = [thr EXCEPT ![l].pc = "returned"]
    /\ hist' = [hist EXCEPT ![l] = [Touch(l) EXCEPT !.returned = TRUE]]
    /\ UNCHANGED <<mainpc, nslot, ret, ctx, refcnt, gil, handles>>

\* lines 117-121: disable cancellation, pop the handler, then
\* handler_exec(thr, thr->ok_cbak); a request posted so far is never served
ThreadFinish(l) ==
    /\ thr[l].pc = "returned"
    /\ thr' = [thr EXCEPT ![l] = EnterHandler(Pop(Disable(@)), ctx[l].ok_cbak)]
    /\ hist' = [hist EXCEPT ![l] = [Touch(l) EXCEPT !.he = @ + 1, !.own = FALSE]]
    /\ UNCHANGED <<mainpc, nslot, ret, ctx, refcnt, gil, handles>>

\* a request posted while the routine runs, or after it returned and before
\* line 117, is acted on at some instruction, or not before line 117
ThreadCancelled(l) ==
    /\ CancelActs(thr[l])
    /\ ActOnCancel(l, thr[l])
    /\ UNCHANGED <<mainpc, nslot, ret, ctx, refcnt, gil, handles>>

(* ---- handler_exec, lines 70-91 ----------------------------------------- *)
\* a variant that goes on without PyGILState_Ensure
HandlerEnsure_Skip(l) ==
    /\ thr[l].pc = "he_gil"
    /\ thr' = [thr EXCEPT ![l].pc = "he_call"]
    /\ UNCHANGED <<mainpc, nslot, ret, ctx, refcnt, gil, handles, hist>>

\* line 72: PyGILState_Ensure blocks until the GIL is free
HandlerEnsure(l) ==
    /\ thr[l].pc = "he_gil" /\ gil = GilFree
    /\ gil' = l
    /\ thr' = [thr EXCEPT ![l].pc = "he_call"]
    /\ UNCHANGED <<mainpc, nslot, ret, ctx, refcnt, handles, hist>>

\* the callback `cbak` is called with the tuple (arg): note which of the
\* context's callbacks it is, and the argument
Invoke(h, c, cbak, arg) ==
    [h EXCEPT !.ok = IF cbak = c.ok_cbak THEN @ + 1 ELSE @,
              !.cancel = IF cbak = c.cancel_cbak THEN @ + 1 ELSE @,
              !.err = IF cbak = c.err_cbak THEN @ + 1 ELSE @,
              !.cbarg = arg]

\* a variant that passes another field of the context
CallbackArg_Cbak(c) == c.ok_cbak

\* line 75: the one element of the argument tuple is thr->data
CallbackArg(c) == c.data

\* lines 75-76: build the argument tuple; call the callback only if that
\* worked; the call returns an object, or NULL when the callback raised
HandlerCall(l) ==
    /\ thr[l].pc = "he_call"
    /\ \E built \in BOOLEAN, res \in {"NULL", "obj"} :
         IF built
         THEN /\ thr' = [thr EXCEPT ![l].pc = "he_decref", ![l].args = "tuple",
                                    ![l].ret = res]
              /\ refcnt' = Py_INCREF(refcnt, CallbackArg(ctx[l]))
              /\ hist' = [hist EXCEPT ![l] = Invoke(Touch(l), ctx[l], thr[l].cbak,
                                                    CallbackArg(ctx[l]))]
         ELSE /\ res = "NULL"
              /\ thr' = [thr EXCEPT ![l].pc = "he_decref", ![l].args = "NULL"]
              /\ hist' = [hist EXCEPT ![l] = Touch(l)]
              /\ UNCHANGED refcnt
    /\ UNCHANGED <<mainpc, nslot, ret, ctx, gil, handles>>

\* lines 79-84: drop the tuple (and with it its reference to data) and the
\* callback's result if there is one, then the four references the context owns
HandlerDecref(l) ==
    /\ thr[l].pc = "he_decref"
    /\ thr' = [thr EXCEPT ![l].pc = "he_release", ![l].args = "NULL",
                          ![l].ret = "NULL"]
    /\ refcnt' = ReleaseAll(IF thr[l].args = "tuple"
                            THEN Py_DECREF(refcnt, ctx[l].data) ELSE refcnt,
                            ctx[l])
    /\ hist' = [hist EXCEPT ![l] = [Touch(l) EXCEPT !.released = TRUE,
                                                    !.owned = {}]]
    /\ UNCHANGED <<mainpc, nslot, ret, ctx, gil, handles>>

\* lines 87-90: PyGILState_Release, free(thr); handler_exec returns and the
\* thread ends (line 123, or the end of cancellation cleanup)
HandlerDone(l) ==
    /\ thr[l].pc = "he_release"
    /\ gil' = GilFree
    /\ ctx' = [ctx EXCEPT ![l] = Free(@)]
    /\ hist' = [hist EXCEPT ![l] = Ended(Freed(@))]
    /\ thr' = [thr EXCEPT ![l] = Exited(@)]
    /\ UNCHANGED <<mainpc, nslot, ret, refcnt, handles>>

ThreadStep(l) ==
    \/ ThreadSetup(l)
    \/ ThreadRoutineReturns(l)
    \/ ThreadFinish(l)
    \/ ThreadCancelled(l)
    \/ HandlerEnsure(l)
    \/ HandlerCall(l)
    \/ HandlerDecref(l)
    \/ HandlerDone(l)

Next ==
    \/ LaunchNoMemory
    \/ LaunchBadArgs
    \/ DoInterruptably
    \/ LaunchMakeHandle
    \/ InterruptBadArgs
    \/ InterruptCall
    \/ Return
    \/ \E l \in Slots : ThreadStep(l)

Spec == Init /\ [][Next]_vars

\* lines 75-90 are straight-line code that waits for nothing: the thread that
\* holds the GIL is runnable, and the scheduler runs it (at most one thread is
\* at these lines at a time)
HandlerRuns == \E l \in Slots : HandlerCall(l) \/ HandlerDecref(l) \/ HandlerDone(l)

FairSpec == Spec /\ WF_vars(HandlerRuns)


(***************************************************************************)
(* Properties                                                              *)
(***************************************************************************)
Created(l) == thr[l].pc # "none"
Tagged(o) == o.kind = "capsule" /\ o.name = THREAD_HANDLE_NAME
LaunchErrors == {"TypeError", "MemoryError", "SystemError"}

\* C1: for every launch whose thread was created, handler_exec runs at most
\* once and exactly one of ok_cbak / cancel_cbak is invoked exactly once:
\* never both, never one twice, and never neither once the thread has ended.
\* Fails: when Py_BuildValue returns NULL (line 75) no callback is invoked.
C1_ExactlyOneCallback ==
    \A l \in Slots :
        /\ hist[l].he <= 1
        /\ hist[l].ok + hist[l].cancel <= 1
        /\ thr[l].pc = "exited" => hist[l].ok + hist[l].cancel = 1

\* what does hold of C1's case: handler_exec runs at most once per launch, at
\* most one of the two callbacks is invoked, at most once, and a thread ends
\* only through handler_exec
AtMostOneCallback ==
    \A l \in Slots :
        /\ hist[l].he <= 1
        /\ hist[l].ok + hist[l].cancel <= 1
        /\ thr[l].pc = "exited" => hist[l].he = 1

\* C2: once interrupt has returned None for a launch's handle before that
\* launch's routine returned, on_success (ok_cbak) is never invoked for it.
\* Fails: the posted request need not be acted on before line 117 disables
\* cancellation, and then ok_cbak is called.
C2_EarlyCancelNeverSuccess ==
    \A l \in Slots : hist[l].early => hist[l].ok = 0

\* C3: once the routine has returned normally, the completion that fires is
\* ok_cbak, never cancel_cbak.  Fails: a request acted on between the return
\* of line 112 and line 117 runs the cleanup handler.
C3_ReturnedMeansSuccess ==
    \A l \in Slots : hist[l].returned => hist[l].cancel = 0

\* C4: when do_interruptably returns an error, no thread created by that call
\* exists.  Fails: make_thread_handle can fail (lines 144, 147) after
\* pthread_create succeeded.
C4_ErrorMeansNoThread ==
    (mainpc = "ret" /\ ret.op = "launch" /\ ret.result \in LaunchErrors)
        => (ret.slot = 0 \/ ~Created(ret.slot))

\* C5: when thread creation fails, the context is freed and every retain
\* taken by the call is undone: the reference counts are what they were before
\* the call.  Fails: lines 229-242 free the context without any Py_DECREF.
C5_CreateFailureUnwinds ==
    [][(mainpc = "idle" /\ ret'.op = "launch" /\ ret'.stage = "create")
        => (ctx'[ret'.slot].state = "freed" /\ refcnt' = refcnt)]_vars

\* C6: a launch given a non-callable in one of the three callback positions
\* returns TypeError, creates no thread, frees the context it allocated and
\* retains none of the four objects.
C6_NonCallableRejected ==
    [][(mainpc = "idle" /\ ret'.op = "launch" /\ ret'.bad)
        => /\ mainpc' = "ret" /\ ret'.result = "TypeError"
           /\ thr' = thr
           /\ ctx'[ret'.slot].state = "freed" /\ hist'[ret'.slot].nfree = 1
           /\ refcnt' = refcnt]_vars

C6_Witness ==
    /\ mainpc = "ret" /\ ret.op = "launch" /\ ret.bad
    /\ ret.result = "TypeError"
    /\ \E l \in Slots : Live(thr[l])

\* C7: interrupt calls pthread_cancel only for a capsule whose name is
\* THREAD_HANDLE_NAME; for a raw integer, or a capsule with another name, the
\* call ends without the OS call.
C7_CancelOnlyForTaggedCapsule ==
    (mainpc = "ret" /\ ret.op = "interrupt")
        => /\ ret.oscall => Tagged(ret.arg)
           /\ ~Tagged(ret.arg) => ret.result \in {"TypeError", "ValueError"}

\* a forged capsule carrying the identifier of a running thread is turned away
C7_Witness ==
    /\ mainpc = "ret" /\ ret.op = "interrupt" /\ ~ret.oscall
    /\ ret.arg.kind = "capsule" /\ ret.arg.name # THREAD_HANDLE_NAME
    /\ Targets(ret.arg.tid) # {}

C9_CancelResult ==
    (mainpc = "ret" /\ ret.op = "interrupt")
        => /\ ret.oscall => (ret.rc # 0 => ret.result = "SystemError")
           /\ ret.result = "None" <=> (ret.oscall /\ ret.rc = 0)
           /\ ret.result = "SystemError" => (ret.oscall /\ Tagged(ret.arg))

\* the only launch was cancelled through its handle, its thread has ended, and
\* a further interrupt on the same handle is refused by the OS
C9_Witness ==
    /\ mainpc = "ret" /\ ret.op = "interrupt" /\ Tagged(ret.arg)
    /\ ret.rc = ESRCH /\ ret.result = "SystemError"
    /\ nslot = 1 /\ ret.arg.launch = 1
    /\ thr[1].pc = "exited" /\ hist[1].cancel = 1

\* C10: the context of a launched thread is freed at most once, only inside
\* handler_exec, only after the one callback invocation and the release of
\* the four objects, and is never touched after it was freed.  Fails with C1:
\* the context is also freed when no callback was invoked.
C10_FreedOnceAfterCallback ==
    \A l \in Slots : Created(l) =>
        /\ hist[l].nfree <= 1
        /\ ~hist[l].uaf
        /\ ctx[l].state = "freed" =>
              /\ hist[l].he = 1 /\ hist[l].released
              /\ hist[l].ok + hist[l].cancel = 1

\* what does hold of C10's case: freed at most once, inside handler_exec,
\* after the four releases, and never touched afterwards
ContextFreedOnce ==
    \A l \in Slots : Created(l) =>
        /\ hist[l].nfree <= 1
        /\ ~hist[l].uaf
        /\ ctx[l].state = "freed" => (hist[l].he = 1 /\ hist[l].released)
        /\ thr[l].pc = "exited" => (ctx[l].state = "freed" /\ hist[l].nfree = 1)

\* C11: each of the four objects of a launch is retained once at launch and
\* released once at completion, on the success and on the cancelled path, also
\* when the callback raised or the argument tuple could not be built: every
\* reference count is its initial value plus one per context still owning the
\* object plus one per argument tuple in use, a running launch owns exactly its
\* four objects until handler_exec releases them, and a completed one owns none.
C11_RetainedOnceReleasedOnce ==
    /\ \A o \in Objects :
          refcnt[o] = 1 + Cardinality({l \in Slots : o \in hist[l].owned})
                        + Cardinality({l \in Slots : thr[l].args = "tuple"
                                                      /\ ctx[l].data = o})
    /\ \A l \in Slots : Created(l) =>
          hist[l].owned = IF Live(thr[l]) /\ ~hist[l].released
                          THEN Owned(ctx[l]) ELSE {}

\* two launches were given the same argument object; one completed with
\* ok_cbak, the other was cancelled, and every count is back at its start
C11_Witness ==
    /\ nslot = 2
    /\ thr[1].pc = "exited" /\ thr[2].pc = "exited"
    /\ hist[1].ok + hist[2].ok = 1 /\ hist[1].cancel + hist[2].cancel = 1
    /\ refcnt = [o \in Objects |-> 1]

\* the Python caller is inside do_interruptably or interrupt, which run with
\* the GIL from entry to return
MainHolds == mainpc # "idle"

\* thread l is between PyGILState_Ensure (line 72) and PyGILState_Release
\* (line 87): where it builds the tuple, calls the callback and releases
ThreadHolds(l) == thr[l].pc \in {"he_call", "he_decref", "he_release"}

Holders == (IF MainHolds THEN {GilMain} ELSE {}) \cup {l \in Slots : ThreadHolds(l)}

\* C12: at most one thread holds the GIL at any time; the caller holds it for
\* the whole of a do_interruptably call (so for its retains), and a spawned
\* thread holds it from line 72 to line 87, so for the tuple, the callback
\* invocation and the releases of lines 79-84.
C12_GilExclusive ==
    /\ Cardinality(Holders) <= 1
    /\ Holders = IF gil = GilFree THEN {} ELSE {gil}
    /\ \A l \in Slots : thr[l].args = "tuple" => gil = l

\* one thread is releasing its objects under the GIL while another has
\* finished its routine and waits in PyGILState_Ensure
C12_Witness ==
    \E l \in Slots, k \in Slots :
        /\ gil = l /\ thr[l].pc = "he_decref"
        /\ thr[k].pc = "he_gil"

\* C13: the callback of a launch is invoked with the very object that was
\* passed as arg to that launch; with several launches in flight no callback
\* receives the arg of another launch.
C13_CallbackGetsOwnArg ==
    \A l \in Slots : hist[l].cbarg # NIL =>
        /\ hist[l].cbarg = hist[l].arg
        /\ \A k \in Slots \ {l} :
              (hist[k].arg # NIL /\ hist[k].arg # hist[l].arg)
                  => hist[l].cbarg # hist[k].arg

\* two launches with different argument objects are in flight and the second
\* one's callback has been called, with the second one's object
C13_Witness ==
    /\ hist[1].arg = "d1" /\ hist[2].arg = "d2"
    /\ Live(thr[1]) /\ hist[1].cbarg = NIL
    /\ hist[2].cbarg = "d2"

\* a step of the Python caller: every one of them moves mainpc, and no step
\* of a spawned thread does
MainStep == mainpc' # mainpc

\* C14: a context has one accessor at a time.  Once pthread_create has
\* succeeded for slot l the caller's steps (the rest of do_interruptably, and
\* every interrupt) leave the context as it is and do not free it; the caller
\* frees a context only in a call that created no thread for it; a step that
\* does change the context of a created thread is a step of that thread, in
\* handler_exec; and that thread never uses it after it was freed.
C14_OneAccessor ==
    [][\A l \in Slots :
         /\ (MainStep /\ Created(l))
               => (ctx'[l] = ctx[l] /\ hist'[l].nfree = hist[l].nfree)
         /\ (MainStep /\ hist'[l].nfree # hist[l].nfree) => thr'[l].pc = "none"
         /\ (MainStep /\ thr[l].pc = "none" /\ thr'[l].pc # "none")
               => ctx'[l].state = "live"
         /\ (Created(l) /\ ctx'[l] # ctx[l])
               => (thr[l].pc = "he_release" /\ thr'[l].pc = "exited")
         /\ ~hist'[l].uaf]_vars

\* the caller is still inside do_interruptably, having made the handle, while
\* the thread it started has already run its routine and read the context
C14_Witness ==
    /\ mainpc = "ret" /\ ret.op = "launch" /\ ret.result = "handle"
    /\ thr[ret.slot].pc = "he_gil" /\ ctx[ret.slot].state = "live"

\* the two steps of an interrupt call: its body, and its return
InterruptStep == mainpc = "idle" /\ ret'.op = "interrupt"
InterruptReturn == mainpc = "ret" /\ ret.op = "interrupt" /\ mainpc' = "idle"

\* C15: interrupt returns without waiting, and leaves every context, every
\* reference count, the freed contexts, the handles and every thread as they
\* are, except that a thread whose identifier is the one stored in a correctly
\* tagged handle may get a cancellation request posted.
C15_InterruptFrame ==
    [][(InterruptStep \/ InterruptReturn) =>
         /\ ctx' = ctx /\ refcnt' = refcnt
         /\ handles' = handles /\ nslot' = nslot
         /\ \A l \in Slots :
               /\ hist'[l].nfree = hist[l].nfree
               /\ hist'[l].ok = hist[l].ok /\ hist'[l].cancel = hist[l].cancel
               /\ \/ thr'[l] = thr[l]
                  \/ /\ InterruptStep /\ Tagged(ret'.arg) /\ ret'.oscall
                     /\ thr[l].tid = ret'.arg.tid
                     /\ thr'[l] = [thr[l] EXCEPT !.pending = TRUE]]_vars

\* interrupt has returned None to the caller while the thread it was aimed at
\* is still inside its routine with the request posted, and no callback has run
C15_Witness ==
    \E l \in Slots :
        /\ mainpc = "idle" /\ hist[l].early
        /\ thr[l].pc = "routine" /\ thr[l].pending
        /\ hist[l].cancel = 0 /\ ctx[l].state = "live"

\* while thread l holds the GIL no cancellation request can act on it: its
\* cancelability is disabled and no request is kept for it; on the success
\* path the cleanup handler is gone as well; a thread that has ended does not
\* hold the GIL
HolderNotCancellable ==
    \A l \in Slots :
        /\ (thr[l].pc \in {"he_gil", "he_call", "he_decref", "he_release"})
              => /\ thr[l].cancelstate = "disable" /\ ~thr[l].pending
                 /\ ~CancelActs(thr[l]) /\ ~thr[l].cleanup
        /\ gil = l => ThreadHolds(l)
        /\ ~Live(thr[l]) => gil # l

\* C16: no spawned thread is terminated by a cancellation request while it
\* holds the GIL, the GIL leaves a spawned thread only by that thread's own
\* PyGILState_Release (line 87), and every acquisition by a spawned thread is
\* eventually followed by that release.
C16_GilAlwaysReleased ==
    /\ []HolderNotCancellable
    /\ [][\A l \in Slots : (gil = l /\ gil' # l)
              => (thr[l].pc = "he_release" /\ gil' = GilFree)]_vars
    /\ (gil \in Slots) ~> (gil = GilFree)

\* interrupt has posted a request, successfully as far as the OS says, at a
\* thread that is already inside handler_exec, about to take the GIL
C16_Witness ==
    \E l \in Slots :
        /\ mainpc = "ret" /\ ret.op = "interrupt" /\ ret.oscall /\ ret.rc = 0
        /\ ret.arg.launch = l /\ thr[l].tid = ret.arg.tid
        /\ thr[l].pc = "he_gil" /\ thr[l].cbak = "f_ok"

C18_CancelOnlyByOwnHandle ==
    \A l \in Slots : (Live(thr[l]) /\ hist[l].cancel = 1) => hist[l].own

\* C19: no callback runs while a do_interruptably or interrupt call is in
\* progress, and the callback of a launch runs only after that launch's call
\* has returned its handle.  Fails with C4: a launch whose make_thread_handle
\* failed returns no handle, and its callback runs all the same.
C19_CallbackAfterHandleReturned ==
    \A l \in Slots :
        /\ ThreadHolds(l) => mainpc = "idle"
        /\ (hist[l].ok + hist[l].cancel > 0) => \E h \in handles : h.launch = l

\* what does hold of C19's case: a thread is inside lines 75-87 (tuple,
\* callback, releases) only while no extension call is in progress, so every
\* callback runs after the launch call that started its thread, and after any
\* interrupt call that posted its cancellation, has returned
NoCallbackDuringCall ==
    \A l \in Slots :
        /\ ThreadHolds(l) => (mainpc = "idle" /\ ret = NoRet)
        /\ (mainpc # "idle" /\ ret.op = "launch" /\ ret.slot = l)
              => (hist[l].ok + hist[l].cancel = 0 /\ hist[l].cbarg = NIL)

====
